---- MODULE Spec2Model ----
(***************************************************************************)
(* DefaultTestReporter (src/src/DefaultTestReporter.js): the reporter that *)
(* writes per-file results, forwarded console output, the "Waiting on N    *)
(* tests..." indicator and the end-of-run summary to process.stdout and    *)
(* process.stderr, together with the tree builder / renderer of the        *)
(* verbose mode.                                                           *)
(*                                                                         *)
(* Texts are TLA+ strings built with \o exactly as the JavaScript builds   *)
(* them with +.  Every write is a record [stream, text]; `writes` holds    *)
(* the writes of the most recent reporter call in the order they were      *)
(* made.                                                                   *)
(***************************************************************************)
EXTENDS Integers, Sequences, FiniteSets, TLC

VARIABLES
  _config,            \* this._config: the config stored by onRunStart, or undefined
  testResult,         \* the per-file result structure the runner hands to onTestResult
  aggregatedResults,  \* the runner's aggregated run state, handed to every call
  writes,             \* writes of the most recent call: Seq([stream, text])
  colorizeCalls,      \* number of colors.colorize invocations in the most recent call
  call,               \* the most recent call: [op, config, outcome, error]
  pending,            \* the last text on stdout when the most recent call began ("" if none)
  results,            \* input of the commented createTestTree (SpecTree)
  tree,               \* value of `tree` after createTestTree (SpecTree)
  lines               \* outcome of preOrder.call(this, tree.childNodes) (SpecTree)

vars == <<_config, testResult, aggregatedResults, writes, colorizeCalls, call,
          pending, results, tree, lines>>

treeVars == <<results, tree, lines>>

(***************************************************************************)
(* Bounds of the model.                                                    *)
(***************************************************************************)
MaxLog == 2         \* longest logMessages sequence
MaxFileCases == 1   \* longest testResults sequence of a reported file
MaxTotal == 2       \* largest aggregatedResults.numTotalTests
MaxResults == 3     \* longest input sequence of createTestTree
MaxDepth == 2       \* longest ancestorTitles of a test case

(***************************************************************************)
(* lib/colors (not part of src/): the colour codes and colorize, which     *)
(* wraps a text in a colour code and the reset code.                       *)
(***************************************************************************)
RESET == "<RESET>"
BOLD == "<BOLD>"
RED == "<RED>"
GREEN == "<GREEN>"
YELLOW == "<YELLOW>"
GRAY == "<GRAY>"
RED_BG == "<RED_BG>"
GREEN_BG == "<GREEN_BG>"

colorize(str, color) == color \o str \o RESET

FAIL_COLOR == RED_BG \o BOLD
PASS_COLOR == GREEN_BG \o BOLD
TEST_NAME_COLOR == BOLD

(***************************************************************************)
(* JavaScript values.                                                      *)
(***************************************************************************)
Undefined == [undefined |-> TRUE]

IsUndefined(v) == "undefined" \in DOMAIN v

\* '' is falsy, as is a missing property
Truthy(str) == str # ""

RECURSIVE join(_, _)
\* Array.prototype.join
join(strs, sep) ==
  IF Len(strs) = 0 THEN ""
  ELSE IF Len(strs) = 1 THEN strs[1]
  ELSE strs[1] \o sep \o join(Tail(strs), sep)

\* Number-to-string conversion of ms / 1000 for a whole number of
\* milliseconds ms >= 0: 2500 gives "2.5", 2501 "2.501", 1000 "1"
SecondsToString(ms) ==
  LET whole == ms \div 1000
      frac == ms % 1000
      digits == IF frac % 100 = 0 THEN ToString(frac \div 100)
                ELSE IF frac % 10 = 0
                  THEN ToString(frac \div 100) \o ToString((frac \div 10) % 10)
                ELSE ToString(frac \div 100) \o ToString((frac \div 10) % 10)
                       \o ToString(frac % 10)
  IN IF frac = 0 THEN ToString(whole) ELSE ToString(whole) \o "." \o digits

\* path.relative(from, to) of Node's path module, for a file below `from`
\* (the prefix and the separator are dropped) and for any other file (kept)
relative(from, to) ==
  LET prefix == from \o "/"
  IN IF Len(to) > Len(prefix) /\ SubSeq(to, 1, Len(prefix)) = prefix
     THEN SubSeq(to, Len(prefix) + 1, Len(to))
     ELSE to

(***************************************************************************)
(* Writes.                                                                 *)
(***************************************************************************)
Stdout(text) == [stream |-> "stdout", text |-> text]
Stderr(text) == [stream |-> "stderr", text |-> text]

\* DefaultTestReporter.prototype.log
log(str) == Stdout(str \o "\n")

\* A step of a handler: what it wrote, how often it invoked colorize, and
\* the exception it threw ("" when it completed)
Done(ws, n) == [writes |-> ws, calls |-> n, threw |-> "", error |-> ""]
Threw(ws, n, kind, msg) == [writes |-> ws, calls |-> n, threw |-> kind, error |-> msg]

\* Sequencing of two steps: the second runs only if the first completed
Then(a, b) ==
  IF a.threw # "" THEN a
  ELSE [writes |-> a.writes \o b.writes, calls |-> a.calls + b.calls,
        threw |-> b.threw, error |-> b.error]

(***************************************************************************)
(* The helpers of the reporter.  `this` is the stored config.              *)
(***************************************************************************)
\* _formatMsg without its noHighlight test
_formatMsgAlways(this, msg, color) == [text |-> colorize(msg, color), calls |-> 1]

\* DefaultTestReporter.prototype._formatMsg: the text, and the number of
\* colorize invocations it took
_formatMsg(this, msg, color) ==
  IF this.noHighlight
  THEN [text |-> msg, calls |-> 0]
  ELSE [text |-> colorize(msg, color), calls |-> 1]

\* An erasure that writes nothing
_clearWaitingOnNothing(this) ==
  IF IsUndefined(this)
  THEN Threw(<<>>, 0, "TypeError", "Cannot read property 'noHighlight' of undefined")
  ELSE Done(<<>>, 0)

\* DefaultTestReporter.prototype._clearWaitingOn
_clearWaitingOn(this) ==
  IF IsUndefined(this)
  THEN Threw(<<>>, 0, "TypeError", "Cannot read property 'noHighlight' of undefined")
  ELSE Done(<<Stdout(IF this.noHighlight THEN "\n" ELSE "\r<ESC>[K")>>, 0)

\* DefaultTestReporter.prototype._getResultHeader
_getResultHeader(this, passed, testName, columns) ==
  LET passFailTag == IF passed THEN _formatMsg(this, " PASS ", PASS_COLOR)
                     ELSE _formatMsg(this, " FAIL ", FAIL_COLOR)
      name == _formatMsg(this, testName, TEST_NAME_COLOR)
  IN [text |-> join(<<passFailTag.text, name.text>> \o columns, " "),
      calls |-> passFailTag.calls + name.calls]

\* _printWaitingOn without its remainingTests tests
_printWaitingOnAlways(this, aggregated) ==
  LET remainingTests == aggregated.numTotalTests
                          - (aggregated.numPassedTests + aggregated.numFailedTests)
      msg == _formatMsg(this, "Waiting on " \o ToString(remainingTests) \o " tests...",
                        GRAY \o BOLD)
  IN Done(<<Stdout(msg.text)>>, msg.calls)

\* DefaultTestReporter.prototype._printWaitingOn
_printWaitingOn(this, aggregated) ==
  LET completedTests == aggregated.numPassedTests + aggregated.numFailedTests
      remainingTests == aggregated.numTotalTests - completedTests
      pluralTests == IF remainingTests = 1 THEN "test" ELSE "tests"
      msg == _formatMsg(this,
               "Waiting on " \o ToString(remainingTests) \o " " \o pluralTests \o "...",
               GRAY \o BOLD)
  IN IF remainingTests > 0 THEN Done(<<Stdout(msg.text)>>, msg.calls)
     ELSE Done(<<>>, 0)

\* _printConsoleMessage with every type falling into the 'log' case
_printConsoleMessageAllStdout(this, msg) == Done(<<Stdout(msg.data)>>, 0)

\* _printConsoleMessage with a default case that only breaks
_printConsoleMessageIgnoresUnknown(this, msg) ==
  CASE msg.type \in {"dir", "log"} -> Done(<<Stdout(msg.data)>>, 0)
    [] msg.type = "warn" -> Done(<<Stderr(_formatMsg(this, msg.data, YELLOW).text)>>,
                                 _formatMsg(this, msg.data, YELLOW).calls)
    [] msg.type = "error" -> Done(<<Stderr(_formatMsg(this, msg.data, RED).text)>>,
                                  _formatMsg(this, msg.data, RED).calls)
    [] OTHER -> Done(<<>>, 0)

\* DefaultTestReporter.prototype._printConsoleMessage
_printConsoleMessage(this, msg) ==
  CASE msg.type \in {"dir", "log"} -> Done(<<Stdout(msg.data)>>, 0)
    [] msg.type = "warn" ->
         LET m == _formatMsg(this, msg.data, YELLOW)
         IN Done(<<Stderr(m.text)>>, m.calls)
    [] msg.type = "error" ->
         LET m == _formatMsg(this, msg.data, RED)
         IN Done(<<Stderr(m.text)>>, m.calls)
    [] OTHER -> Threw(<<>>, 0, "Error", "Unknown console message type!: " \o msg.type)

RECURSIVE forEachPrintConsoleMessage(_, _)
\* testResult.logMessages.forEach(this._printConsoleMessage.bind(this)):
\* the entries in order, until one throws
forEachPrintConsoleMessage(this, logMessages) ==
  IF Len(logMessages) = 0 THEN Done(<<>>, 0)
  ELSE Then(_printConsoleMessage(this, Head(logMessages)),
            forEachPrintConsoleMessage(this, Tail(logMessages)))

(***************************************************************************)
(* lib/utils (not part of src/): VerboseTestResultsTree, the tree builder  *)
(* and renderer the verbose branch constructs, and formatFailureMessage.   *)
(* Both follow the specification's sections 4.1, 4.2 and 6.  A GroupNode   *)
(* is [cases, children]; children is an ordered map, a sequence of         *)
(* [title, node] in insertion order.                                       *)
(***************************************************************************)
EmptyGroup == [cases |-> <<>>, children |-> <<>>]

\* Position of the child titled `title` in an ordered map, 0 if there is none
ChildIndex(children, title) ==
  IF \E i \in 1..Len(children) : children[i].title = title
  THEN CHOOSE i \in 1..Len(children) : children[i].title = title
  ELSE 0

RECURSIVE VerboseTestResultsTree_insert(_, _, _)
\* Descend / create the groups along ancestorTitles, then append the case
VerboseTestResultsTree_insert(node, ancestorTitles, case) ==
  IF Len(ancestorTitles) = 0
  THEN [node EXCEPT !.cases = Append(@, case)]
  ELSE LET i == ChildIndex(node.children, Head(ancestorTitles))
       IN IF i = 0
          THEN [node EXCEPT !.children = Append(@,
                  [title |-> Head(ancestorTitles),
                   node |-> VerboseTestResultsTree_insert(
                              EmptyGroup, Tail(ancestorTitles), case)])]
          ELSE [node EXCEPT !.children[i].node =
                  VerboseTestResultsTree_insert(@, Tail(ancestorTitles), case)]

RECURSIVE VerboseTestResultsTree_build(_)
\* build(results): the root, the results inserted in input order
VerboseTestResultsTree_build(testResults) ==
  IF Len(testResults) = 0 THEN EmptyGroup
  ELSE LET last == testResults[Len(testResults)]
       IN VerboseTestResultsTree_insert(
            VerboseTestResultsTree_build(SubSeq(testResults, 1, Len(testResults) - 1)),
            last.ancestorTitles, last)

RECURSIVE indent(_)
\* two spaces per level
indent(d) == IF d <= 0 THEN "" ELSE "  " \o indent(d - 1)

RECURSIVE VerboseTestResultsTree_cases(_, _, _)
\* One line per case, coloured by its outcome through the injected formatter
VerboseTestResultsTree_cases(this, cases, d) ==
  IF Len(cases) = 0 THEN Done(<<>>, 0)
  ELSE LET c == Head(cases)
           m == _formatMsg(this, indent(d) \o c.title,
                           IF Len(c.failureMessages) = 0 THEN PASS_COLOR ELSE FAIL_COLOR)
       IN Then(Done(<<log(m.text)>>, m.calls),
               VerboseTestResultsTree_cases(this, Tail(cases), d))

RECURSIVE VerboseTestResultsTree_groups(_, _, _)
\* The groups of an ordered map in insertion order, depth first: the title
\* line, the group's cases one level deeper, then its child groups
VerboseTestResultsTree_groups(this, children, d) ==
  IF Len(children) = 0 THEN Done(<<>>, 0)
  ELSE LET g == Head(children)
       IN Then(Done(<<log(indent(d) \o g.title)>>, 0),
          Then(VerboseTestResultsTree_cases(this, g.node.cases, d + 1),
          Then(VerboseTestResultsTree_groups(this, g.node.children, d + 1),
               VerboseTestResultsTree_groups(this, Tail(children), d))))

\* render(root): the root is no line; its own cases take one indent unit,
\* its child groups start at depth 0
VerboseTestResultsTree_render(this, root) ==
  Then(VerboseTestResultsTree_cases(this, root.cases, 1),
       VerboseTestResultsTree_groups(this, root.children, 0))

\* new VerboseTestResultsTree(testResults, log, _formatMsg).init()
VerboseTestResultsTree_init(this, testResults) ==
  VerboseTestResultsTree_render(this, VerboseTestResultsTree_build(testResults))

RECURSIVE formatFailureMessage(_, _)
\* formatFailureMessage(testResult, color): one block per failing case, its
\* title (coloured when color is set) and its failure messages
formatFailureMessage(testResults, color) ==
  IF Len(testResults) = 0 THEN [text |-> "", calls |-> 0]
  ELSE LET c == Head(testResults)
           rest == formatFailureMessage(Tail(testResults), color)
           name == " - " \o join(c.ancestorTitles \o <<c.title>>, " > ")
           title == IF color THEN colorize(name, RED \o BOLD) ELSE name
       IN IF Len(c.failureMessages) = 0 THEN rest
          ELSE [text |-> title \o "\n" \o join(c.failureMessages, "\n") \o "\n"
                           \o rest.text,
                calls |-> (IF color THEN 1 ELSE 0) + rest.calls]

(***************************************************************************)
(* The operations of the reporter, as steps.                               *)
(***************************************************************************)
SlowMs == 2500   \* testRunTime > 2.5, in milliseconds

\* onRunStart after `this._config = config`
onRunStart(config, aggregated) == _printWaitingOn(config, aggregated)

\* The time annotation of onTestResult: [text, calls]
\* The time column marked slow from 2.5 seconds on
testRunTimeStringAtLeast(this, result) ==
  LET plain == IF result.perfStats.present
               THEN "(" \o SecondsToString(result.perfStats.end - result.perfStats.start)
                        \o "s)"
               ELSE "(nulls)"
      slow == result.perfStats.present
                /\ result.perfStats.end - result.perfStats.start >= SlowMs
  IN IF slow THEN _formatMsg(this, plain, FAIL_COLOR)
     ELSE [text |-> plain, calls |-> 0]

\* var testRunTime, testRunTimeString (lines 50-58)
testRunTimeString(this, result) ==
  LET plain == IF result.perfStats.present
               THEN "(" \o SecondsToString(result.perfStats.end - result.perfStats.start)
                        \o "s)"
               ELSE "(nulls)"
      slow == result.perfStats.present
                /\ result.perfStats.end - result.perfStats.start > SlowMs
  IN IF slow THEN _formatMsg(this, plain, FAIL_COLOR)
     ELSE [text |-> plain, calls |-> 0]

\* The error branch passing the time column to the header
onTestResultExecErrorWithTime(this, pathStr, result) ==
  LET header == _getResultHeader(this, FALSE, pathStr, <<"(nulls)">>)
  IN Done(<<log(header.text), log(result.testExecError)>>, header.calls)

\* onTestResult from the error branch on: the FAIL header and the raw error
onTestResultExecError(this, pathStr, result) ==
  LET header == _getResultHeader(this, FALSE, pathStr, <<>>)
  IN Done(<<log(header.text), log(result.testExecError)>>, header.calls)

\* The body writing the failure message ahead of the console messages
onTestResultBodyFailureFirst(this, config, pathStr, result, aggregated) ==
  LET allTestsPassed == result.numFailingTests = 0
      time == testRunTimeString(this, result)
      header == _getResultHeader(this, allTestsPassed, pathStr, <<time.text>>)
      failure == formatFailureMessage(result.testResults, ~config.noHighlight)
  IN Then(Done(<<>>, time.calls),
     Then(IF config.verbose
          THEN VerboseTestResultsTree_init(this, result.testResults)
          ELSE Done(<<log(header.text)>>, header.calls),
     Then(IF ~allTestsPassed THEN Done(<<log(failure.text)>>, failure.calls)
          ELSE Done(<<>>, 0),
     Then(forEachPrintConsoleMessage(this, result.logMessages),
          _printWaitingOn(this, aggregated)))))

\* The body writing the result header in verbose mode as well
onTestResultBodyHeaderAlways(this, config, pathStr, result, aggregated) ==
  LET allTestsPassed == result.numFailingTests = 0
      time == testRunTimeString(this, result)
      header == _getResultHeader(this, allTestsPassed, pathStr, <<time.text>>)
      failure == formatFailureMessage(result.testResults, ~config.noHighlight)
  IN Then(Done(<<>>, time.calls),
     Then(IF config.verbose
          THEN VerboseTestResultsTree_init(this, result.testResults)
          ELSE Done(<<>>, 0),
     Then(Done(<<log(header.text)>>, header.calls),
     Then(forEachPrintConsoleMessage(this, result.logMessages),
     Then(IF ~allTestsPassed THEN Done(<<log(failure.text)>>, failure.calls)
          ELSE Done(<<>>, 0),
          _printWaitingOn(this, aggregated))))))

\* onTestResult after the error branch
onTestResultBody(this, config, pathStr, result, aggregated) ==
  LET allTestsPassed == result.numFailingTests = 0
      time == testRunTimeString(this, result)
      header == _getResultHeader(this, allTestsPassed, pathStr, <<time.text>>)
      failure == formatFailureMessage(result.testResults, ~config.noHighlight)
  IN Then(Done(<<>>, time.calls),
     Then(IF config.verbose
          THEN VerboseTestResultsTree_init(this, result.testResults)
          ELSE Done(<<log(header.text)>>, header.calls),
     Then(forEachPrintConsoleMessage(this, result.logMessages),
     Then(IF ~allTestsPassed THEN Done(<<log(failure.text)>>, failure.calls)
          ELSE Done(<<>>, 0),
          _printWaitingOn(this, aggregated)))))

\* onTestResult formatting by the config it is passed, once the stored one
\* has served the erasure
onTestResultPassedConfig(this, config, result, aggregated) ==
  LET pathStr == IF Truthy(config.rootDir)
                 THEN relative(config.rootDir, result.testFilePath)
                 ELSE result.testFilePath
  IN Then(_clearWaitingOn(this),
          IF Truthy(result.testExecError)
          THEN onTestResultExecError(config, pathStr, result)
          ELSE onTestResultBody(config, config, pathStr, result, aggregated))

\* DefaultTestReporter.prototype.onTestResult
onTestResult(this, config, result, aggregated) ==
  LET pathStr == IF Truthy(config.rootDir)
                 THEN relative(config.rootDir, result.testFilePath)
                 ELSE result.testFilePath
  IN Then(_clearWaitingOn(this),
          IF Truthy(result.testExecError)
          THEN onTestResultExecError(this, pathStr, result)
          ELSE onTestResultBody(this, config, pathStr, result, aggregated))

\* The value onTestResult returns when it does not throw
onTestResultReturn(result) ==
  IF Truthy(result.testExecError) THEN "false" ELSE "undefined"

\* onRunComplete with the plural noun for every count
onRunCompleteAlwaysPlural(this, config, aggregated) ==
  IF aggregated.numTotalTests = 0 THEN Done(<<>>, 0)
  ELSE IF IsUndefined(this)
    THEN Threw(<<>>, 0, "TypeError", "Cannot read property 'noHighlight' of undefined")
  ELSE LET failed == _formatMsg(this,
                       ToString(aggregated.numFailedTests) \o " tests failed",
                       RED \o BOLD)
           passed == _formatMsg(this,
                       ToString(aggregated.numPassedTests) \o " tests passed",
                       GREEN \o BOLD)
       IN Done(<<log((IF aggregated.numFailedTests # 0 THEN failed.text \o ", " ELSE "")
                       \o passed.text \o " ("
                       \o ToString(aggregated.numTotalTests) \o " total)"),
                 log("Run time: " \o ToString(aggregated.runTime) \o "s")>>,
               (IF aggregated.numFailedTests # 0 THEN failed.calls ELSE 0)
                 + passed.calls)

\* DefaultTestReporter.prototype.onRunComplete
onRunComplete(this, config, aggregated) ==
  LET numFailedTests == aggregated.numFailedTests
      numPassedTests == aggregated.numPassedTests
      numTotalTests == aggregated.numTotalTests
      runTime == aggregated.runTime
      failed == _formatMsg(this,
                  ToString(numFailedTests) \o " test"
                    \o (IF numFailedTests = 1 THEN "" ELSE "s") \o " failed",
                  RED \o BOLD)
      passed == _formatMsg(this,
                  ToString(numPassedTests) \o " test"
                    \o (IF numPassedTests = 1 THEN "" ELSE "s") \o " passed",
                  GREEN \o BOLD)
      text == (IF numFailedTests # 0 THEN failed.text \o ", " ELSE "")
                \o passed.text \o " (" \o ToString(numTotalTests) \o " total)"
  IN IF numTotalTests = 0 THEN Done(<<>>, 0)
     ELSE IF IsUndefined(this)
       THEN Threw(<<>>, 0, "TypeError", "Cannot read property 'noHighlight' of undefined")
     ELSE Done(<<log(text), log("Run time: " \o ToString(runTime) \o "s")>>,
               (IF numFailedTests # 0 THEN failed.calls ELSE 0) + passed.calls)

(***************************************************************************)
(* The tree builder and renderer kept in onTestResult as a commented       *)
(* reference (lines 66-121), on JavaScript objects.  A node is             *)
(* { testTitles: [], childNodes: {} }; an object used as a map is          *)
(* [props |-> its own properties in insertion order], each [key, value].   *)
(* Reading a key the object does not own falls through to                  *)
(* Object.prototype; for-in visits the own keys that are array indices     *)
(* first, in ascending numeric order, then the other keys in insertion     *)
(* order.                                                                  *)
(***************************************************************************)
ObjectPrototypeKeys ==
  {"constructor", "toString", "toLocaleString", "valueOf", "hasOwnProperty",
   "isPrototypeOf", "propertyIsEnumerable", "__proto__"}

EmptyObject == [props |-> <<>>]

FreshNode == [testTitles |-> <<>>, childNodes |-> EmptyObject]

Builtin(key) == [builtin |-> key]

IsBuiltin(v) == "builtin" \in DOMAIN v

TypeError(msg) == [TypeError |-> msg]

IsTypeError(v) == "TypeError" \in DOMAIN v

\* Position of an own property, 0 if the object does not own the key
OwnIndex(obj, key) ==
  IF \E i \in 1..Len(obj.props) : obj.props[i].key = key
  THEN CHOOSE i \in 1..Len(obj.props) : obj.props[i].key = key
  ELSE 0

\* obj[key]
Get(obj, key) ==
  IF OwnIndex(obj, key) # 0 THEN obj.props[OwnIndex(obj, key)].value
  ELSE IF key \in ObjectPrototypeKeys THEN Builtin(key)
  ELSE Undefined

\* obj[key] = value
Put(obj, key, value) ==
  IF OwnIndex(obj, key) # 0
  THEN [obj EXCEPT !.props[OwnIndex(obj, key)].value = value]
  ELSE [obj EXCEPT !.props = Append(@, [key |-> key, value |-> value])]

\* The array index a key is the canonical form of, -1 if it is none
\* (one-digit keys are all the model uses)
ArrayIndex(key) ==
  IF \E i \in 0..9 : ToString(i) = key
  THEN CHOOSE i \in 0..9 : ToString(i) = key
  ELSE 0 - 1

RECURSIVE SortedIndexKeys(_)
\* The keys of a set of array-index keys in ascending numeric order
SortedIndexKeys(keys) ==
  IF keys = {} THEN <<>>
  ELSE LET least == CHOOSE k \in keys : \A o \in keys : ArrayIndex(k) <= ArrayIndex(o)
       IN <<least>> \o SortedIndexKeys(keys \ {least})

\* The keys for (var key in obj) visits, in its order
ForInKeys(obj) ==
  LET own == [i \in 1..Len(obj.props) |-> obj.props[i].key]
      IsIndex(k) == ArrayIndex(k) >= 0
  IN SortedIndexKeys({own[i] : i \in {j \in 1..Len(own) : IsIndex(own[j])}})
       \o SelectSeq(own, LAMBDA k : ~IsIndex(k))

RECURSIVE createTestNode(_, _, _)
\* createTestNode(testResult, ancestorTitles, currentNode): the node it
\* returns (currentNode, mutated in place), or the TypeError it throws
createTestNode(result, ancestorTitles, currentNode) ==
  LET cur == IF IsUndefined(currentNode) THEN FreshNode ELSE currentNode
  IN IF IsBuiltin(cur)
     THEN IF Len(ancestorTitles) = 0
          THEN TypeError("Cannot call method 'push' of undefined")
          ELSE TypeError("Cannot read property '" \o Head(ancestorTitles)
                           \o "' of undefined")
     ELSE IF Len(ancestorTitles) = 0
     THEN [cur EXCEPT !.testTitles = Append(@, result)]
     ELSE LET key == Head(ancestorTitles)
              childNodes == IF IsUndefined(Get(cur.childNodes, key))
                            THEN Put(cur.childNodes, key, FreshNode)
                            ELSE cur.childNodes
              child == createTestNode(result, Tail(ancestorTitles), Get(childNodes, key))
          IN IF IsTypeError(child) THEN child
             ELSE [cur EXCEPT !.childNodes = Put(childNodes, key, child)]

RECURSIVE createTestTreeFrom(_, _)
\* The loop of createTestTree from `tree` on, over the results left
createTestTreeFrom(tree_, rest) ==
  IF Len(rest) = 0 THEN tree_
  ELSE LET next == createTestNode(Head(rest), Head(rest).ancestorTitles, tree_)
       IN IF IsTypeError(next) THEN next ELSE createTestTreeFrom(next, Tail(rest))

\* createTestTree(results): `tree` starts undefined
createTestTree(results_) == createTestTreeFrom(Undefined, results_)

RECURSIVE printTestTitles(_, _, _)
\* printTestTitles.call(this, testTitles, indentation)
printTestTitles(this, testTitles, indentation) ==
  IF Len(testTitles) = 0 THEN Done(<<>>, 0)
  ELSE LET t == Head(testTitles)
           outputColor == IF Len(t.failureMessages) = 0 THEN GREEN ELSE RED
           m == _formatMsg(this, indentation \o t.title, outputColor)
       IN Then(Done(<<log(m.text)>>, m.calls),
               printTestTitles(this, Tail(testTitles), indentation))

RECURSIVE preOrder(_, _, _)
RECURSIVE preOrderKeys(_, _, _, _)
\* preOrder.call(this, node, indentation)
preOrder(this, node, indentation) ==
  IF IsUndefined(node) THEN Done(<<>>, 0)
  ELSE IF "testTitles" \in DOMAIN node
  THEN Then(printTestTitles(this, node.testTitles, indentation),
            preOrder(this, node.childNodes, indentation))
  ELSE preOrderKeys(this, node, ForInKeys(node), indentation)

\* The for-in loop of preOrder over the keys left
preOrderKeys(this, node, keys, indentation) ==
  IF Len(keys) = 0 THEN Done(<<>>, 0)
  ELSE Then(Done(<<log(indentation \o Head(keys))>>, 0),
       Then(preOrder(this, Get(node, Head(keys)), indentation \o "  "),
            preOrderKeys(this, node, Tail(keys), indentation)))

\* A renderer that takes the cases it prints off the node
nodeAfterPreOrderConsuming(node) ==
  IF "testTitles" \in DOMAIN node
  THEN [testTitles |-> <<>>, childNodes |-> EmptyObject]
  ELSE node

\* The node preOrder and printTestTitles leave behind: they read testTitles,
\* childNodes and the keys, and assign to no property of the node
nodeAfterPreOrder(node) == node

\* var tree = createTestTree(...); preOrder.call(this, tree.childNodes)
preOrderTree(this, tree_) ==
  IF IsUndefined(tree_)
  THEN Threw(<<>>, 0, "TypeError", "Cannot read property 'childNodes' of undefined")
  ELSE preOrder(this, tree_.childNodes, "")

(***************************************************************************)
(* The inputs: configs, per-file results, aggregated results, test cases.  *)
(***************************************************************************)
Config(noHighlight, verbose, rootDir) ==
  [noHighlight |-> noHighlight, verbose |-> verbose, rootDir |-> rootDir]

Configs ==
  {Config(FALSE, FALSE, ""), Config(TRUE, FALSE, "/r"),
   Config(FALSE, TRUE, "/r"), Config(TRUE, TRUE, "")}

TestCase(ancestorTitles, title, failed) ==
  [ancestorTitles |-> ancestorTitles, title |-> title,
   failureMessages |-> IF failed THEN <<"boom">> ELSE <<>>]

\* Sequences over S of length at most n
SeqsUpTo(S, n) == UNION {[1..k -> S] : k \in 0..n}

\* A passing case titled x and a failing case titled y below each path
CasesBelow(paths) ==
  {TestCase(a, "x", FALSE) : a \in paths} \cup {TestCase(a, "y", TRUE) : a \in paths}

FileCaseSeqs == SeqsUpTo(CasesBelow({<<>>, <<"A">>}), MaxFileCases)

LogTypes == {"log", "dir", "warn", "error", "info"}

LogSeqs == SeqsUpTo({[type |-> t, data |-> "m-" \o t] : t \in LogTypes}, MaxLog)

NoPerfStats == [present |-> FALSE, start |-> 0, end |-> 0]

PerfStats(start, end) == [present |-> TRUE, start |-> start, end |-> end]

PerfStatsSet == {NoPerfStats, PerfStats(0, SlowMs), PerfStats(0, SlowMs + 1)}

\* The runner counts the failing cases of the file
FileResult(testExecError, perfStats, logMessages, testResults) ==
  [testFilePath |-> "/r/a.js",
   testExecError |-> testExecError,
   numFailingTests |->
     Cardinality({i \in 1..Len(testResults) : Len(testResults[i].failureMessages) # 0}),
   perfStats |-> perfStats,
   logMessages |-> logMessages,
   testResults |-> testResults]

\* A file with one passing case, and one with a failing case in a group
PassingFile == <<TestCase(<<>>, "x", FALSE)>>

FailingFile == <<TestCase(<<"A">>, "y", TRUE)>>

\* Files that failed to run, files with console output, files with timings
FileResults ==
  {FileResult("boom", PerfStats(0, SlowMs + 1), l, FailingFile) : l \in LogSeqs}
    \cup {FileResult("", PerfStats(0, SlowMs), l, c) :
            l \in LogSeqs, c \in {PassingFile, FailingFile}}
    \cup {FileResult("", p, <<>>, c) : p \in PerfStatsSet, c \in FileCaseSeqs}

Aggregated(passed, failed, total) ==
  [numPassedTests |-> passed, numFailedTests |-> failed, numTotalTests |-> total,
   runTime |-> 3]

\* The counts are the caller's: up to one completed test more than the
\* total, so that fewer than zero tests can remain
Aggs ==
  {Aggregated(p, f, t) : p \in 0..MaxTotal, f \in 0..MaxTotal,
                         t \in 0..MaxTotal} \cap
  {a \in [numPassedTests : 0..MaxTotal, numFailedTests : 0..MaxTotal,
          numTotalTests : 0..MaxTotal, runTime : {3}] :
     a.numPassedTests + a.numFailedTests <= a.numTotalTests + 1}

\* Every file result while one test is outstanding, and three file results
\* under every aggregated state
Runs ==
  {<<r, Aggregated(1, 0, 2)>> : r \in FileResults}
    \cup {<<r, a>> : r \in {FileResult("boom", PerfStats(0, SlowMs + 1), <<>>,
                                       FailingFile),
                            FileResult("", PerfStats(0, SlowMs), <<>>, PassingFile),
                            FileResult("", PerfStats(0, SlowMs), <<>>, FailingFile)},
                     a \in Aggs}

NoCall == [op |-> "none", config |-> Undefined, outcome |-> "", error |-> ""]

Call(op, config, outcome, error) ==
  [op |-> op, config |-> config, outcome |-> outcome, error |-> error]

\* The text last written to stdout, `before` if ws holds no write to stdout
LastStdout(ws, before) ==
  LET out == SelectSeq(ws, LAMBDA w : w.stream = "stdout")
  IN IF Len(out) = 0 THEN before ELSE out[Len(out)].text

(***************************************************************************)
(* The reporter as a state machine: a constructed reporter, and calls of   *)
(* its three operations in any order.                                      *)
(***************************************************************************)
Init ==
  /\ _config = Undefined
  /\ \E run \in Runs : testResult = run[1] /\ aggregatedResults = run[2]
  /\ writes = <<>>
  /\ colorizeCalls = 0
  /\ call = NoCall
  /\ pending = ""
  /\ results = <<>>
  /\ tree = Undefined
  /\ lines = Done(<<>>, 0)

\* The effect of a call that ran `step` on the recorded output
Record(op, config, step, returned) ==
  /\ writes' = step.writes
  /\ colorizeCalls' = step.calls
  /\ call' = Call(op, config, IF step.threw # "" THEN step.threw ELSE returned,
                  step.error)
  /\ pending' = LastStdout(writes, pending)
  /\ UNCHANGED <<testResult, aggregatedResults, treeVars>>

CallOnRunStart(config) ==
  /\ _config' = config
  /\ Record("onRunStart", config, onRunStart(config, aggregatedResults), "undefined")

\* A result call that stores the config it is passed
CallOnTestResultStoringConfig(config) ==
  /\ _config' = config
  /\ Record("onTestResult", config,
            onTestResult(_config, config, testResult, aggregatedResults),
            onTestResultReturn(testResult))

CallOnTestResult(config) ==
  /\ UNCHANGED _config
  /\ Record("onTestResult", config,
            onTestResult(_config, config, testResult, aggregatedResults),
            onTestResultReturn(testResult))

CallOnRunComplete(config) ==
  /\ UNCHANGED _config
  /\ Record("onRunComplete", config,
            onRunComplete(_config, config, aggregatedResults), "undefined")

Next ==
  \E config \in Configs :
    \/ CallOnRunStart(config)
    \/ CallOnTestResult(config)
    \/ CallOnRunComplete(config)

Spec == Init /\ [][Next]_vars

(***************************************************************************)
(* The commented builder and renderer as a state machine: any input        *)
(* sequence, built once and then rendered.                                 *)
(***************************************************************************)
GroupTitles == {"A", "1", "constructor"}

\* The names of the two properties every node carries, taken as group titles
BookkeepingTitles == {"testTitles", "childNodes"}

TreePaths ==
  SeqsUpTo(GroupTitles, MaxDepth) \cup {<<t>> : t \in BookkeepingTitles}

TreeInputs == SeqsUpTo(CasesBelow(TreePaths), MaxResults)

InitTree ==
  /\ _config \in {Config(FALSE, TRUE, ""), Config(TRUE, TRUE, "")}
  /\ testResult = FileResult("", NoPerfStats, <<>>, <<>>)
  /\ aggregatedResults = Aggregated(0, 0, 0)
  /\ writes = <<>>
  /\ colorizeCalls = 0
  /\ call = NoCall
  /\ pending = ""
  /\ results \in TreeInputs
  /\ tree = Undefined
  /\ lines = Done(<<>>, 0)

CallCreateTestTree ==
  /\ call.op = "none"
  /\ tree' = createTestTree(results)
  /\ call' = Call("createTestTree", _config,
                  IF IsTypeError(createTestTree(results)) THEN "TypeError" ELSE "tree",
                  "")
  /\ UNCHANGED <<_config, testResult, aggregatedResults, writes, colorizeCalls,
                 pending, results, lines>>

CallPreOrder ==
  /\ call.op = "createTestTree"
  /\ call.outcome = "tree"
  /\ lines' = preOrderTree(_config, tree)
  /\ call' = Call("preOrder", _config,
                  IF preOrderTree(_config, tree).threw # "" THEN "TypeError"
                  ELSE "undefined",
                  "")
  /\ tree' = nodeAfterPreOrder(tree)
  /\ UNCHANGED <<_config, testResult, aggregatedResults, writes, colorizeCalls,
                 pending, results>>

\* The same tree rendered a second time into the same sink
CallPreOrderAgain ==
  /\ call.op = "preOrder"
  /\ lines' = preOrderTree(_config, tree)
  /\ call' = Call("preOrderAgain", _config,
                  IF preOrderTree(_config, tree).threw # "" THEN "TypeError"
                  ELSE "undefined",
                  "")
  /\ tree' = nodeAfterPreOrder(tree)
  /\ UNCHANGED <<_config, testResult, aggregatedResults, writes, colorizeCalls,
                 pending, results>>

NextTree == CallCreateTestTree \/ CallPreOrder \/ CallPreOrderAgain

SpecTree == InitTree /\ [][NextTree]_vars

(***************************************************************************)
(* The same machine over the inputs that build: ordinary titles, groups    *)
(* nested under "A", passing cases under every path and a failing one      *)
(* under a group.                                                          *)
(***************************************************************************)
RenderPaths ==
  {p \in SeqsUpTo({"A", "1"}, MaxDepth) : \A k \in 1..(Len(p) - 1) : p[k] = "A"}

RenderCases ==
  {TestCase(p, "x", FALSE) : p \in RenderPaths} \cup {TestCase(<<"A">>, "y", TRUE)}

RenderInputs == SeqsUpTo(RenderCases, MaxResults)

InitRender ==
  /\ _config \in {Config(FALSE, TRUE, ""), Config(TRUE, TRUE, "")}
  /\ testResult = FileResult("", NoPerfStats, <<>>, <<>>)
  /\ aggregatedResults = Aggregated(0, 0, 0)
  /\ writes = <<>>
  /\ colorizeCalls = 0
  /\ call = NoCall
  /\ pending = ""
  /\ results \in RenderInputs
  /\ tree = Undefined
  /\ lines = Done(<<>>, 0)

SpecRender == InitRender /\ [][NextTree]_vars

(***************************************************************************)
(* Vocabulary of the claims.                                               *)
(***************************************************************************)
Started == ~IsUndefined(_config)

Remaining ==
  aggregatedResults.numTotalTests
    - (aggregatedResults.numPassedTests + aggregatedResults.numFailedTests)

\* text occurs in whole
Contains(whole, text) ==
  \E i \in 1..(Len(whole) - Len(text) + 1) : SubSeq(whole, i, i + Len(text) - 1) = text

\* A text as the stored config shows it: wrapped in the colour unless the
\* no-highlight flag is set
Shown(text, color) == IF _config.noHighlight THEN text ELSE color \o text \o RESET

Erasures == {Stdout("\n"), Stdout("\r<ESC>[K")}

WaitingText(n) ==
  "Waiting on " \o ToString(n) \o (IF n = 1 THEN " test..." ELSE " tests...")

IsWaiting(w) == w.stream = "stdout" /\ Contains(w.text, "Waiting on ")

\* The file label the passed config gives the reported file
FileLabel == IF call.config.rootDir = "" THEN "/r/a.js" ELSE "a.js"

KnownTypes == {"log", "dir", "warn", "error"}

\* The writes of the call that carry console-message data
Forwarded == SelectSeq(writes, LAMBDA w : Contains(w.text, "m-"))

\* A result call made after onRunStart
ResultCall == call.op = "onTestResult" /\ Started

(***************************************************************************)
(* C1: every onTestResult call made after onRunStart writes the erasure    *)
(* sequence first and, when tests remain, the waiting indicator last,      *)
(* whatever the file result is.                                            *)
(***************************************************************************)
C1_ErasureFirstWaitingLast ==
  ResultCall =>
    /\ Len(writes) >= 1
    /\ writes[1] \in Erasures
    /\ Remaining > 0 =>
         /\ Len(writes) >= 2
         /\ writes[Len(writes)] = Stdout(Shown(WaitingText(Remaining), GRAY \o BOLD))

(***************************************************************************)
(* Vocabulary of the tree claims: the group a path of titles leads to,     *)
(* following own properties only, and counts over a tree.                  *)
(***************************************************************************)
Built == call.op \in {"createTestTree", "preOrder"}

IsNode(v) == "testTitles" \in DOMAIN v

RECURSIVE NodeAt(_, _)
NodeAt(node, path) ==
  IF ~IsNode(node) THEN Undefined
  ELSE IF Len(path) = 0 THEN node
  ELSE IF OwnIndex(node.childNodes, Head(path)) = 0 THEN Undefined
  ELSE NodeAt(node.childNodes.props[OwnIndex(node.childNodes, Head(path))].value,
              Tail(path))

RECURSIVE SumOver(_, _, _)
\* Sum of f over the values of the properties from position i on
SumOver(f(_), props, i) ==
  IF i > Len(props) THEN 0 ELSE f(props[i].value) + SumOver(f, props, i + 1)

RECURSIVE CountLeaves(_)
CountLeaves(node) ==
  IF ~IsNode(node) THEN 0
  ELSE Len(node.testTitles) + SumOver(CountLeaves, node.childNodes.props, 1)

RECURSIVE CountGroups(_)
\* The groups below a node
CountGroups(node) ==
  IF ~IsNode(node) THEN 0
  ELSE LET one(v) == 1 + CountGroups(v)
       IN SumOver(one, node.childNodes.props, 1)

\* The non-empty ancestor-path prefixes occurring in the input
Prefixes ==
  UNION {{SubSeq(results[i].ancestorTitles, 1, k) :
            k \in 1..Len(results[i].ancestorTitles)} : i \in 1..Len(results)}

Occurrences(seq, x) == Cardinality({i \in 1..Len(seq) : seq[i] = x})

\* The lines of a rendering that are group titles
TitleLines(ws) ==
  SelectSeq(ws, LAMBDA w :
    \E d \in 0..MaxDepth + 1, g \in GroupTitles \cup BookkeepingTitles :
      w.text = indent(d) \o g \o "\n")

(***************************************************************************)
(* C2: the tree built from any sequence of results holds every input       *)
(* result exactly once as a leaf, no other leaf, and each leaf in the      *)
(* cases of the group its ancestorTitles lead to from the root.            *)
(***************************************************************************)
C2_EveryResultOnceAtItsPath ==
  (call.op = "createTestTree" /\ results # <<>>) =>
    /\ IsNode(tree)
    /\ CountLeaves(tree) = Len(results)
    /\ \A i \in 1..Len(results) :
         LET group == NodeAt(tree, results[i].ancestorTitles)
         IN /\ IsNode(group)
            /\ Occurrences(group.testTitles, results[i])
                 = Occurrences(results, results[i])

(***************************************************************************)
(* C3: rendering emits the groups depth first in pre-order, siblings in    *)
(* insertion order: the title at indent(d), the group's cases at           *)
(* indent(d+1) in the pass or fail colour, then its child groups at depth  *)
(* d+1, before the next sibling; the root is no line.                      *)
(***************************************************************************)
RECURSIVE PreOrderLines(_, _)
\* The lines of the groups of an ordered map of GroupNodes, in its order
PreOrderLines(children, d) ==
  IF Len(children) = 0 THEN <<>>
  ELSE LET g == Head(children)
       IN <<log(indent(d) \o g.title)>>
            \o [i \in 1..Len(g.node.cases) |->
                  log(Shown(indent(d + 1) \o g.node.cases[i].title,
                            IF Len(g.node.cases[i].failureMessages) = 0
                            THEN GREEN ELSE RED))]
            \o PreOrderLines(g.node.children, d + 1)
            \o PreOrderLines(Tail(children), d)

C3_DepthFirstInsertionOrder ==
  call.op = "preOrder" =>
    lines.writes = PreOrderLines(VerboseTestResultsTree_build(results).children, 0)

(***************************************************************************)
(* C4: the tree has exactly one group per distinct non-empty ancestor-path *)
(* prefix of the input, shared by all results with that prefix, adjacent   *)
(* or not; the cases of a group keep their input order; each group title   *)
(* is rendered once.                                                       *)
(***************************************************************************)
C4_OneGroupPerPrefix ==
  /\ (Built /\ results # <<>>) =>
       /\ IsNode(tree)
       /\ CountGroups(tree) = Cardinality(Prefixes)
       /\ \A p \in Prefixes \cup {<<>>} :
            /\ IsNode(NodeAt(tree, p))
            /\ NodeAt(tree, p).testTitles
                 = SelectSeq(results, LAMBDA r : r.ancestorTitles = p)
  /\ call.op = "preOrder" =>
       Len(TitleLines(lines.writes)) = Cardinality(Prefixes)

(***************************************************************************)
(* C5: with testExecError present, onTestResult writes the erasure         *)
(* sequence, the FAIL header of the file label and the raw error text,     *)
(* nothing else to either stream, and returns false, for either value of   *)
(* verbose.                                                                *)
(***************************************************************************)
C5_ExecErrorShortCircuits ==
  (ResultCall /\ testResult.testExecError # "") =>
    /\ Len(writes) = 3
    /\ writes[1] \in Erasures
    /\ writes[2] = Stdout(Shown(" FAIL ", FAIL_COLOR) \o " "
                            \o Shown(FileLabel, TEST_NAME_COLOR) \o "\n")
    /\ writes[3] = Stdout(testResult.testExecError \o "\n")
    /\ call.outcome = "false"

C5_Witness ==
  /\ ResultCall
  /\ testResult.testExecError # ""
  /\ Len(testResult.logMessages) > 0
  /\ testResult.numFailingTests > 0
  /\ testResult.perfStats.present
  /\ call.config.verbose
  /\ call.outcome = "false"

(***************************************************************************)
(* C6: a console message of an unknown type aborts onTestResult with an    *)
(* error naming the type; only the entries before it are forwarded, and    *)
(* neither a failure message nor the waiting indicator is written.         *)
(***************************************************************************)
C6_UnknownTypeAborts ==
  \A k \in 1..Len(testResult.logMessages) :
    ( /\ ResultCall
      /\ testResult.testExecError = ""
      /\ testResult.logMessages[k].type \notin KnownTypes
      /\ \A j \in 1..(k - 1) : testResult.logMessages[j].type \in KnownTypes ) =>
        /\ call.outcome = "Error"
        /\ Contains(call.error, testResult.logMessages[k].type)
        /\ Len(Forwarded) = k - 1
        /\ \A j \in 1..(k - 1) :
             Contains(Forwarded[j].text, testResult.logMessages[j].data)
        /\ \A i \in 1..Len(writes) :
             ~IsWaiting(writes[i]) /\ ~Contains(writes[i].text, "boom")
        /\ k > 1 => writes[Len(writes)] = Forwarded[k - 1]

C6_Witness ==
  /\ ResultCall
  /\ call.outcome = "Error"
  /\ Len(testResult.logMessages) = 2
  /\ testResult.logMessages[1].type = "info"
  /\ testResult.numFailingTests > 0
  /\ Remaining > 0

(***************************************************************************)
(* C7: without testExecError, and with every entry of a known type, the    *)
(* entries of logMessages are forwarded once each and in order: log and    *)
(* dir to stdout with the data unchanged, warn and error to stderr in      *)
(* yellow and red; nothing else reaches stderr.                            *)
(***************************************************************************)
C7_ConsoleMessagesForwarded ==
  ( /\ ResultCall
    /\ testResult.testExecError = ""
    /\ \A j \in 1..Len(testResult.logMessages) :
         testResult.logMessages[j].type \in KnownTypes ) =>
      /\ Forwarded =
           [j \in 1..Len(testResult.logMessages) |->
              LET m == testResult.logMessages[j]
              IN CASE m.type \in {"log", "dir"} -> Stdout(m.data)
                   [] m.type = "warn" -> Stderr(Shown(m.data, YELLOW))
                   [] m.type = "error" -> Stderr(Shown(m.data, RED))]
      /\ SelectSeq(writes, LAMBDA w : w.stream = "stderr")
           = SelectSeq(Forwarded, LAMBDA w : w.stream = "stderr")

C7_Witness ==
  /\ ResultCall
  /\ testResult.testExecError = ""
  /\ Len(testResult.logMessages) = 2
  /\ testResult.logMessages[1].type = "warn"
  /\ testResult.logMessages[2].type = "log"
  /\ Len(Forwarded) = 2
  /\ Forwarded[1].stream = "stderr"

(***************************************************************************)
(* C8: after onRunStart, onRunComplete writes nothing when numTotalTests   *)
(* is 0 and otherwise two lines: the failed phrase (only when              *)
(* numFailedTests is not 0) and the passed phrase with the total, then the *)
(* run time; a count of 1 takes "test", any other count "tests".           *)
(***************************************************************************)
CountPhrase(n, what) ==
  ToString(n) \o (IF n = 1 THEN " test " ELSE " tests ") \o what

C8_RunCompleteSummary ==
  (call.op = "onRunComplete" /\ Started) =>
    IF aggregatedResults.numTotalTests = 0 THEN writes = <<>>
    ELSE writes =
      << Stdout((IF aggregatedResults.numFailedTests # 0
                 THEN Shown(CountPhrase(aggregatedResults.numFailedTests, "failed"),
                            RED \o BOLD) \o ", "
                 ELSE "")
                  \o Shown(CountPhrase(aggregatedResults.numPassedTests, "passed"),
                           GREEN \o BOLD)
                  \o " (" \o ToString(aggregatedResults.numTotalTests) \o " total)\n"),
         Stdout("Run time: " \o ToString(aggregatedResults.runTime) \o "s\n") >>

C8_Witness ==
  /\ call.op = "onRunComplete"
  /\ Started
  /\ _config.noHighlight
  /\ aggregatedResults = Aggregated(1, 0, 1)
  /\ Len(writes) = 2
  /\ writes[1].text = "1 test passed (1 total)\n"

(***************************************************************************)
(* C9: the waiting indicator is written exactly when tests remain, as the  *)
(* one text "Waiting on <remaining> test..." (remaining = 1) or            *)
(* "Waiting on <remaining> tests..." (remaining >= 2) on stdout with no    *)
(* line terminator; with nothing remaining, nothing is written.            *)
(***************************************************************************)
C9_WaitingIndicator ==
  LET waiting == SelectSeq(writes, IsWaiting)
      expected == IF Remaining > 0
                  THEN <<Stdout(Shown(WaitingText(Remaining), GRAY \o BOLD))>>
                  ELSE <<>>
  IN /\ call.op = "onRunStart" => writes = expected
     /\ (ResultCall /\ call.outcome = "undefined") =>
          /\ waiting = expected
          /\ Remaining > 0 => writes[Len(writes)] = expected[1]

C9_Witness ==
  /\ call.op = "onRunStart"
  /\ _config.noHighlight
  /\ Remaining = 1
  /\ writes = <<Stdout("Waiting on 1 test...")>>

(***************************************************************************)
(* C10: with the no-highlight flag set, no operation invokes colorize, no  *)
(* text written carries a colour code, and the waiting line is erased by a *)
(* plain newline.                                                          *)
(***************************************************************************)
C10_NoHighlightNeverColorizes ==
  ( /\ call.op \in {"onRunStart", "onTestResult", "onRunComplete"}
    /\ Started
    /\ _config.noHighlight
    /\ call.config.noHighlight ) =>
      /\ colorizeCalls = 0
      /\ \A i \in 1..Len(writes) :
           ~Contains(writes[i].text, "<") /\ ~Contains(writes[i].text, "\r")
      /\ call.op = "onTestResult" => writes[1] = Stdout("\n")

C10_Witness ==
  /\ ResultCall
  /\ _config.noHighlight
  /\ call.config.noHighlight
  /\ call.config.verbose
  /\ testResult.numFailingTests > 0
  /\ Len(testResult.logMessages) > 0
  /\ testResult.logMessages[1].type = "warn"
  /\ call.outcome = "undefined"

(***************************************************************************)
(* C11: a result with empty ancestorTitles is appended to the cases of the *)
(* root, and rendering emits one line for it, its title behind a single    *)
(* indent unit, so that every input result has its line.                   *)
(***************************************************************************)
RootCases == SelectSeq(results, LAMBDA r : Len(r.ancestorTitles) = 0)

\* The lines of a rendering that are cases: all but the group titles
CaseLines(ws) == Len(ws) - Len(TitleLines(ws))

\* No title of the input names an inherited property of a plain object
OrdinaryTitles ==
  \A p \in Prefixes : \A k \in 1..Len(p) : p[k] \notin ObjectPrototypeKeys

C11_RootCasesRendered ==
  /\ (Built /\ RootCases # <<>> /\ OrdinaryTitles) =>
       /\ IsNode(tree)
       /\ tree.testTitles = RootCases
  /\ (call.op = "preOrder" /\ RootCases # <<>> /\ OrdinaryTitles) =>
       /\ lines.threw = ""
       /\ CaseLines(lines.writes) = Len(results)
       /\ \A i \in 1..Len(RootCases) :
            \E j \in 1..Len(lines.writes) :
              lines.writes[j] =
                log(Shown(indent(1) \o RootCases[i].title,
                          IF Len(RootCases[i].failureMessages) = 0
                          THEN GREEN ELSE RED))

(***************************************************************************)
(* C12: a group title that names an inherited property of a plain object,  *)
(* or one of the two properties of a node, is a title like any other: its  *)
(* first occurrence under a group makes a new group of that group, which   *)
(* holds the results of its own path only and the groups below it only.    *)
(***************************************************************************)
SpecialTitles == ObjectPrototypeKeys \cup BookkeepingTitles

\* The prefixes of the input that extend path p by at least one title
Below(p) ==
  {q \in Prefixes : Len(q) > Len(p) /\ SubSeq(q, 1, Len(p)) = p}

C12_SpecialTitlesAreOrdinary ==
  Built =>
    \A p \in Prefixes :
      p[Len(p)] \in SpecialTitles =>
        /\ IsNode(tree)
        /\ IsNode(NodeAt(tree, p))
        /\ NodeAt(tree, p).testTitles
             = SelectSeq(results, LAMBDA r : r.ancestorTitles = p)
        /\ CountGroups(NodeAt(tree, p)) = Cardinality(Below(p))

\* The part of C12 the builder keeps: the two node property names as titles
C12_BookkeepingTitlesAreOrdinary ==
  Built =>
    \A p \in Prefixes :
      (p[Len(p)] \in BookkeepingTitles /\ IsNode(tree)) =>
        /\ IsNode(NodeAt(tree, p))
        /\ NodeAt(tree, p).testTitles
             = SelectSeq(results, LAMBDA r : r.ancestorTitles = p)
        /\ CountGroups(NodeAt(tree, p)) = Cardinality(Below(p))

(***************************************************************************)
(* C16: an empty sequence of results builds the empty root, and rendering  *)
(* it emits no line and raises no error.                                   *)
(***************************************************************************)
C16_EmptyResultsRenderNothing ==
  results = <<>> =>
    /\ call.op = "createTestTree" => tree = FreshNode
    /\ call.outcome # "TypeError"
    /\ call.op = "preOrder" => lines = Done(<<>>, 0)

Elapsed == testResult.perfStats.end - testResult.perfStats.start

Annotation ==
  "(" \o (IF testResult.perfStats.present THEN SecondsToString(Elapsed) ELSE "null")
      \o "s)"

\* Slow is strictly more than 2.5 seconds; a file without timings is not slow
Slow == testResult.perfStats.present /\ Elapsed > 2500

AnnotationShown == IF Slow THEN Shown(Annotation, FAIL_COLOR) ELSE Annotation

IsHeader(w) == Contains(w.text, " PASS ") \/ Contains(w.text, " FAIL ")

EndsWith(text, suffix) ==
  /\ Len(text) >= Len(suffix)
  /\ SubSeq(text, Len(text) - Len(suffix) + 1, Len(text)) = suffix

(***************************************************************************)
(* C14: without testExecError, a call with verbose unset writes exactly    *)
(* one header line, right after the erasure: the PASS tag when             *)
(* numFailingTests is 0 and the FAIL tag otherwise, the file label and the *)
(* time annotation, joined by single spaces; a call with verbose set       *)
(* writes no header line and a line for every case of the file.            *)
(***************************************************************************)
C14_HeaderOrTree ==
  (ResultCall /\ testResult.testExecError = "") =>
    IF call.config.verbose
    THEN /\ SelectSeq(writes, IsHeader) = <<>>
         /\ \A i \in 1..Len(testResult.testResults) :
              \E j \in 2..Len(writes) :
                /\ writes[j].stream = "stdout"
                /\ Contains(writes[j].text,
                            "  " \o testResult.testResults[i].title)
                /\ ~Contains(writes[j].text, " - ")
    ELSE /\ SelectSeq(writes, IsHeader)
              = << Stdout((IF testResult.numFailingTests = 0
                           THEN Shown(" PASS ", PASS_COLOR)
                           ELSE Shown(" FAIL ", FAIL_COLOR))
                            \o " " \o Shown(FileLabel, TEST_NAME_COLOR)
                            \o " " \o AnnotationShown \o "\n") >>
         /\ IsHeader(writes[2])

C14_Witness ==
  /\ ResultCall
  /\ testResult.testExecError = ""
  /\ ~call.config.verbose
  /\ call.config.rootDir # ""
  /\ testResult.numFailingTests = 0
  /\ Len(testResult.testResults) = 1
  /\ writes[2] = Stdout(" PASS  a.js (2.5s)\n")

\* The other rendering: a verbose call that wrote the line of a case
C14_WitnessVerbose ==
  /\ ResultCall
  /\ testResult.testExecError = ""
  /\ call.config.verbose
  /\ Len(testResult.testResults) = 1
  /\ Len(writes) >= 2

(***************************************************************************)
(* C15: the time annotation of the header is written in the FAIL colour    *)
(* exactly when the elapsed time is strictly more than 2.5 seconds,        *)
(* whether the file passed or failed; a file without perfStats raises no   *)
(* error and its annotation is not coloured.                               *)
(***************************************************************************)
C15_SlowStrictlyAbove ==
  (ResultCall /\ testResult.testExecError = "" /\ ~call.config.verbose) =>
    /\ call.outcome # "TypeError"
    /\ Len(writes) >= 2
    /\ EndsWith(writes[2].text, " " \o AnnotationShown \o "\n")
    /\ ~testResult.perfStats.present => ~EndsWith(writes[2].text, RESET \o "\n")

C15_Witness ==
  /\ ResultCall
  /\ testResult.testExecError = ""
  /\ ~call.config.verbose
  /\ ~_config.noHighlight
  /\ testResult.numFailingTests = 0
  /\ Len(testResult.testResults) = 1
  /\ Elapsed = 2501
  /\ EndsWith(writes[2].text, " " \o FAIL_COLOR \o "(2.501s)" \o RESET \o "\n")

\* The boundary: exactly 2.5 seconds, highlighting on, written uncoloured
C15_WitnessBoundary ==
  /\ ResultCall
  /\ testResult.testExecError = ""
  /\ ~call.config.verbose
  /\ ~_config.noHighlight
  /\ testResult.numFailingTests > 0
  /\ Elapsed = 2500
  /\ EndsWith(writes[2].text, " (2.5s)\n")

(***************************************************************************)
(* C17: no call changes the aggregated results or the file result it is    *)
(* given, and the stored config changes only in a call of onRunStart, to   *)
(* the config that call was given.                                         *)
(***************************************************************************)
C17_OnlyOnRunStartStoresConfig ==
  [][ /\ aggregatedResults' = aggregatedResults
      /\ testResult' = testResult
      /\ _config' # _config => call'.op = "onRunStart"
      /\ call'.op = "onRunStart" => _config' = call'.config
      /\ call'.op \in {"onTestResult", "onRunComplete"} => _config' = _config ]_vars

C17_Witness ==
  /\ ResultCall
  /\ call.config # _config
  /\ call.outcome = "undefined"
  /\ Len(writes) >= 3

(***************************************************************************)
(* C18: a waiting indicator written to stdout is followed on stdout by the *)
(* erasure sequence and by nothing else, within a call and from one call   *)
(* to the next: no result line, summary line or second waiting indicator   *)
(* comes directly after it.                                                *)
(***************************************************************************)
StdoutWrites == SelectSeq(writes, LAMBDA w : w.stream = "stdout")

\* The text last written to stdout before the call is a waiting indicator
WaitingPending == Contains(pending, "Waiting on ")

C18_WaitingAlwaysErased ==
  /\ (WaitingPending /\ StdoutWrites # <<>>) => StdoutWrites[1] \in Erasures
  /\ \A i \in 1..(Len(StdoutWrites) - 1) :
       IsWaiting(StdoutWrites[i]) => StdoutWrites[i + 1] \in Erasures

\* The part of C18 the reporter keeps: onTestResult erases before it writes,
\* and a waiting indicator is the last text its call writes to stdout
C18_ErasedByOnTestResult ==
  /\ (WaitingPending /\ call.op = "onTestResult") =>
       /\ StdoutWrites # <<>>
       /\ StdoutWrites[1] \in Erasures
       /\ writes[1] = StdoutWrites[1]
  /\ \A i \in 1..(Len(StdoutWrites) - 1) : ~IsWaiting(StdoutWrites[i])

(***************************************************************************)
(* C19: without testExecError and with console messages of known types     *)
(* only, a result call writes, in this order: the erasure sequence, the    *)
(* header line or the tree lines, the console messages, the formatted      *)
(* failure message, the waiting indicator; the failure message is written  *)
(* exactly when numFailingTests is not 0.                                  *)
(***************************************************************************)
IsFailureMessage(w) == Contains(w.text, " - ") /\ Contains(w.text, "boom")

\* The place of a write in the order of the claim
Phase(w) ==
  IF IsWaiting(w) THEN 5
  ELSE IF IsFailureMessage(w) THEN 4
  ELSE IF Contains(w.text, "m-") THEN 3
  ELSE IF w \in Erasures THEN 1
  ELSE 2

InPhase(k) == SelectSeq(writes, LAMBDA w : Phase(w) = k)

C19_WriteOrder ==
  ( /\ ResultCall
    /\ testResult.testExecError = ""
    /\ \A j \in 1..Len(testResult.logMessages) :
         testResult.logMessages[j].type \in KnownTypes ) =>
      /\ call.outcome = "undefined"
      /\ Len(writes) >= 1
      /\ Phase(writes[1]) = 1
      /\ \A i \in 1..(Len(writes) - 1) : Phase(writes[i]) <= Phase(writes[i + 1])
      /\ Len(InPhase(1)) = 1
      /\ ~call.config.verbose => Len(InPhase(2)) = 1
      /\ call.config.verbose => Len(InPhase(2)) >= Len(testResult.testResults)
      /\ Len(InPhase(3)) = Len(testResult.logMessages)
      /\ Len(InPhase(4)) = (IF testResult.numFailingTests # 0 THEN 1 ELSE 0)
      /\ Len(InPhase(5)) = (IF Remaining > 0 THEN 1 ELSE 0)

C19_Witness ==
  /\ ResultCall
  /\ testResult.testExecError = ""
  /\ Len(testResult.logMessages) = 2
  /\ testResult.logMessages[1].type = "error"
  /\ testResult.logMessages[2].type = "dir"
  /\ testResult.numFailingTests > 0
  /\ Remaining > 0
  /\ Len(writes) = 6
  /\ Phase(writes[5]) = 4

(***************************************************************************)
(* C20: a result call on a reporter that was never started fails before    *)
(* it writes anything; in a call after onRunStart, the erasure and every   *)
(* text that goes through _formatMsg are decided by the no-highlight flag  *)
(* of the stored config, whatever the flag of the config passed to the     *)
(* call.                                                                   *)
(***************************************************************************)
\* The writes whose text _formatMsg has formatted
IsFormatted(w) ==
  \/ IsHeader(w)
  \/ IsWaiting(w)
  \/ Contains(w.text, " passed")
  \/ w.stream = "stderr"

C20_StoredConfigDecides ==
  /\ (call.op = "onTestResult" /\ ~Started) =>
       /\ call.outcome = "TypeError"
       /\ writes = <<>>
  /\ ResultCall =>
       /\ Len(writes) >= 1
       /\ writes[1] = Stdout(IF _config.noHighlight THEN "\n" ELSE "\r<ESC>[K")
  /\ (call.op \in {"onTestResult", "onRunComplete"} /\ Started) =>
       \A i \in 1..Len(writes) :
         ~IsFailureMessage(writes[i]) =>
           /\ _config.noHighlight => ~Contains(writes[i].text, "<")
           /\ (~_config.noHighlight /\ IsFormatted(writes[i])) =>
                Contains(writes[i].text, RESET)

C20_Witness ==
  /\ ResultCall
  /\ _config.noHighlight
  /\ ~call.config.noHighlight
  /\ ~call.config.verbose
  /\ testResult.numFailingTests > 0
  /\ Len(testResult.logMessages) > 0
  /\ testResult.logMessages[1].type = "warn"
  /\ call.outcome = "undefined"

\* The call made before any onRunStart
C20_WitnessNeverStarted ==
  /\ call.op = "onTestResult"
  /\ ~Started
  /\ call.outcome = "TypeError"

====
